---- MODULE Spec2Model ----
(***************************************************************************)
(* BehaviorAnalyzer (src/script.js): the event buffers, the derived        *)
(* metrics, the trait classifier and the display elements it writes to.    *)
(*                                                                         *)
(* JavaScript numbers are modelled as exact rationals [n, d] in lowest     *)
(* terms with d > 0, extended with d = 0 for the non-finite results of a   *)
(* division: [n |-> 1, d |-> 0] is Infinity, [n |-> -1, d |-> 0] is        *)
(* -Infinity and [n |-> 0, d |-> 0] is NaN.  Binary rounding is not        *)
(* modelled.  Timestamps (Date.now()) are integers, in milliseconds.       *)
(***************************************************************************)
EXTENDS Integers, Sequences, FiniteSets, TLC

----------------------------------------------------------------------------
(* JavaScript number arithmetic *)

Abs(i) == IF i < 0 THEN -i ELSE i

Sign(i) == IF i < 0 THEN -1 ELSE IF i > 0 THEN 1 ELSE 0

RECURSIVE GCD(_, _)
GCD(a, b) == IF b = 0 THEN a ELSE GCD(b, a % b)

Norm(n, d) ==
    IF d = 0 THEN [n |-> Sign(n), d |-> 0]
    ELSE LET s == IF d < 0 THEN -1 ELSE 1
             g == GCD(Abs(n), Abs(d))
         IN  [n |-> (s * n) \div g, d |-> (s * d) \div g]

Num(i) == [n |-> i, d |-> 1]

Zero == Num(0)

One == Num(1)

Half == [n |-> 1, d |-> 2]

Infinity == [n |-> 1, d |-> 0]

NaN == [n |-> 0, d |-> 0]

IsNaN(a) == a.d = 0 /\ a.n = 0

\* Number.isFinite
IsFinite(a) == a.d # 0

\* a + b
RAdd(a, b) ==
    IF a.d = 0 /\ b.d = 0
    THEN (IF a.n = b.n THEN a ELSE NaN)
    ELSE IF a.d = 0 THEN a
    ELSE IF b.d = 0 THEN b
    ELSE LET g == GCD(a.d, b.d)
         IN  Norm(a.n * (b.d \div g) + b.n * (a.d \div g), (a.d \div g) * b.d)

\* -a
RNeg(a) == [n |-> -a.n, d |-> a.d]

\* a - b
RSub(a, b) == RAdd(a, RNeg(b))

\* a * b
RMul(a, b) ==
    IF a.d = 0 \/ b.d = 0 THEN Norm(Sign(a.n) * Sign(b.n), 0)
    ELSE LET g == GCD(Abs(a.n), b.d)
             h == GCD(Abs(b.n), a.d)
         IN  Norm((a.n \div g) * (b.n \div h), (a.d \div h) * (b.d \div g))

\* a / b  (x / 0 is Infinity for x > 0 and NaN for x = 0)
RDiv(a, b) ==
    IF a.d = 0 \/ b.d = 0 \/ b.n = 0 THEN Norm(Sign(a.n) * b.d, a.d * Sign(b.n))
    ELSE RMul(a, [n |-> Sign(b.n) * b.d, d |-> Abs(b.n)])

\* a < b  (false when either is NaN)
RLt(a, b) ==
    IF IsNaN(a) \/ IsNaN(b) THEN FALSE
    ELSE IF a.d = 0 /\ b.d = 0 THEN a.n < b.n
    ELSE IF a.d = 0 THEN a.n < 0
    ELSE IF b.d = 0 THEN b.n > 0
    ELSE LET g == GCD(a.d, b.d)
         IN  a.n * (b.d \div g) < b.n * (a.d \div g)

\* a > b
RGt(a, b) == RLt(b, a)

\* Math.abs
MathAbs(a) == [n |-> Abs(a.n), d |-> a.d]

\* Math.min of two numbers
MathMin(a, b) ==
    IF IsNaN(a) \/ IsNaN(b) THEN NaN ELSE IF RLt(b, a) THEN b ELSE a

\* Math.max of two numbers
MathMax(a, b) ==
    IF IsNaN(a) \/ IsNaN(b) THEN NaN ELSE IF RLt(a, b) THEN b ELSE a

\* Math.round: the nearest integer, halves rounded up
MathRound(a) ==
    IF a.d = 0 THEN a ELSE Num((2 * a.n + a.d) \div (2 * a.d))

RECURSIVE ISqrtIn(_, _, _)
ISqrtIn(lo, hi, k) ==
    IF lo >= hi THEN lo
    ELSE LET mid == (lo + hi + 1) \div 2
         IN  IF mid * mid <= k THEN ISqrtIn(mid, hi, k)
             ELSE ISqrtIn(lo, mid - 1, k)

\* the integer square root of k >= 0
ISqrt(k) == ISqrtIn(0, IF k < 40000 THEN k ELSE 40000, k)

\* Math.sqrt: exact on the squares of rationals, which is what the inputs
\* of the model produce; rounded down in numerator and denominator otherwise
MathSqrt(a) ==
    IF a.d = 0 THEN a
    ELSE IF a.n < 0 THEN NaN
    ELSE Norm(ISqrt(a.n), ISqrt(a.d))

\* Math.pow(a, 2)
MathPow2(a) == RMul(a, a)

\* String(a) for an integral or non-finite number
NumToString(a) ==
    IF IsNaN(a) THEN "NaN"
    ELSE IF a.d = 0 THEN (IF a.n > 0 THEN "Infinity" ELSE "-Infinity")
    ELSE IF a.n < 0 THEN "-" \o ToString(-a.n)
    ELSE ToString(a.n)

\* String(a) for a number with at most one decimal digit
TenthsToString(a) ==
    IF a.d = 0 THEN NumToString(a)
    ELSE LET t == (10 * a.n) \div a.d
         IN  IF t % 10 = 0 THEN ToString(t \div 10)
             ELSE ToString(t \div 10) \o "." \o ToString(t % 10)

----------------------------------------------------------------------------
(* The analyzer object, the clock, the timers and the document *)

VARIABLES
    now,                \* the clock: the value Date.now() returned last
    mouseData,          \* this.mouseData
    clickData,          \* this.clickData
    scrollData,         \* this.scrollData
    sessionStart,       \* this.sessionStart
    movementPoints,     \* this.movementPoints
    lastMousePosition,  \* this.lastMousePosition
    lastMoveTime,       \* this.lastMoveTime
    sessionDue,         \* earliest time of the next run of the 1000 ms interval
    analysisDue,        \* earliest time of the next run of the 3000 ms interval
    present,            \* the ids for which document.getElementById finds an element
    text,               \* textContent of the metric slots and of behaviorInsight
    heatmap,            \* children of #clickHeatmap, first child first
    timeline,           \* children of #activityTimeline, first child first
    timelineScrollTop,  \* scrollTop of #activityTimeline, in items
    progressWidth,      \* style.width of #mouseActivityProgress, in percent
    traitsShown,        \* children of #personalityTraits, first child first
    patterns,           \* the snapshot the last updateAnalysis computed
    uncaught,           \* the handlers that ended in an uncaught TypeError
    moveCalls,          \* the handleMouseMove calls made so far, in order
    clickCalls          \* the click events delivered so far, in order

vars == <<now, mouseData, clickData, scrollData, sessionStart, movementPoints,
          lastMousePosition, lastMoveTime, sessionDue, analysisDue, present,
          text, heatmap, timeline, timelineScrollTop, progressWidth,
          traitsShown, patterns, uncaught, moveCalls, clickCalls>>

analyzerVars == <<mouseData, clickData, scrollData, sessionStart,
                  movementPoints, lastMousePosition, lastMoveTime>>

timerVars == <<sessionDue, analysisDue>>

documentVars == <<text, heatmap, timeline, timelineScrollTop, progressWidth,
                  traitsShown>>

\* the slots written through updateMetric, which tolerates a missing element
MetricSlots == {"mouseSpeed", "clickCount", "scrollDistance", "sessionTime",
                "avgSpeed", "clickActivity", "scrollPattern"}

\* the elements dereferenced without a check
RequiredElements == {"clickHeatmap", "activityTimeline", "mouseActivityProgress",
                     "personalityTraits", "behaviorInsight"}

TextElements == MetricSlots \cup {"behaviorInsight"}

AllElements == MetricSlots \cup RequiredElements

\* a gate of 30 ms, as a mistyped constant would give
MoveGateShort == 50 - 20

\* a gate of 100 ms, as a mistyped constant would give
MoveGateLong == 50 + 50

\* a gate that lets every later call through
MoveGateNone == 50 - 50

\* the 50 ms gate of handleMouseMove
MoveGate == 50

\* the cap on the children of #clickHeatmap
HeatmapCap == 50

\* a minimum of 5 movement points, as a mistyped constant would give
MinMovementPointsFewer == 10 - 5

\* the minimum number of movement points calculateMovementConsistency uses
MinMovementPoints == 10

\* the periods of the two intervals of startAnalysis
SessionPeriod == 1000

AnalysisPeriod == 3000

\* the children of #clickHeatmap, #activityTimeline and #personalityTraits in
\* the page as served: the containers are empty sinks (the markup of the page
\* is not among the sources)
InitialChildren == <<>>

\* the text of a slot in the page as served
InitialText == ""

\* the value of `patterns` before the first updateAnalysis
NoPatterns ==
    [computed |-> FALSE, avgSpeed |-> Zero, clickFrequency |-> Zero,
     scrollIntensity |-> Zero, movementConsistency |-> Zero,
     decisionSpeed |-> Zero]

----------------------------------------------------------------------------
(* Helpers of the class *)

calculateDistance(x1, y1, x2, y2) ==
    MathSqrt(RAdd(MathPow2(RSub(x2, x1)), MathPow2(RSub(y2, y1))))

\* called by handleScroll before the new sample is pushed: sd is the
\* scrollData of that moment
calculateScrollVelocity(sd) ==
    IF Len(sd) < 2 THEN Zero
    ELSE LET last == sd[Len(sd)]
             prev == sd[Len(sd) - 1]
         IN  RDiv(MathAbs(Num(last.position - prev.position)),
                  RDiv(Num(last.timestamp - prev.timestamp), Num(1000)))

\* the texts after updateMetric(elementId, value)
updateMetric(txt, elementId, value) ==
    IF elementId \in present THEN [txt EXCEPT ![elementId] = value] ELSE txt

\* updateClickHeatmap removing the last child instead of the first
updateClickHeatmapDropLast(children, nClicks) ==
    LET intensity == MathMin(RDiv(Num(nClicks), Num(10)), One)
        cell == [click |-> nClicks,
                 classes |-> IF RGt(intensity, [n |-> 7, d |-> 10])
                             THEN {"heatmap-cell", "active", "intense"}
                             ELSE {"heatmap-cell", "active"}]
        appended == Append(children, cell)
    IN  IF Len(appended) > 50 THEN SubSeq(appended, 1, Len(appended) - 1)
        ELSE appended

\* the children of #clickHeatmap after updateClickHeatmap, called when
\* clickData holds nClicks samples; a cell is named by the click that made it
updateClickHeatmap(children, nClicks) ==
    LET intensity == MathMin(RDiv(Num(nClicks), Num(10)), One)
        cell == [click |-> nClicks,
                 classes |-> IF RGt(intensity, [n |-> 7, d |-> 10])
                             THEN {"heatmap-cell", "active", "intense"}
                             ELSE {"heatmap-cell", "active"}]
        appended == Append(children, cell)
    IN  IF Len(appended) > HeatmapCap THEN Tail(appended) ELSE appended

getEventIcon(type) ==
    CASE type = "click" -> "icon-click"
      [] type = "scroll" -> "icon-scroll"
      [] type = "keypress" -> "icon-keypress"
      [] type = "move" -> "icon-move"
      [] OTHER -> "icon-bell"

\* the children of #activityTimeline after addTimelineEvent at time t
addTimelineEvent(items, type, description, t) ==
    Append(items, [time |-> t, icon |-> getEventIcon(type),
                   description |-> description])

\* event.pressure || 0.5; the event's pressure is <<>> when the event has
\* none and <<p>> when it has the number p
PressureOrDefault(pressure) ==
    IF pressure = <<>> THEN Half
    ELSE IF IsNaN(pressure[1]) \/ pressure[1] = Zero THEN Half
    ELSE pressure[1]

----------------------------------------------------------------------------
(* Metric extraction *)

RECURSIVE SumSpeeds(_)
\* mouseData.reduce((sum, point) => sum + point.speed, 0)
SumSpeeds(md) ==
    IF md = <<>> THEN Zero ELSE RAdd(SumSpeeds(SubSeq(md, 1, Len(md) - 1)), md[Len(md)].speed)

RECURSIVE MaxVelocity(_)
\* Math.max(...scrollData.map(s => s.velocity))
MaxVelocity(sd) ==
    IF sd = <<>> THEN [n |-> -1, d |-> 0]
    ELSE MathMax(MaxVelocity(Tail(sd)), Head(sd).velocity)

RECURSIVE SumNums(_)
\* the sum of a sequence of numbers
SumNums(q) == IF q = <<>> THEN Zero ELSE RAdd(Head(q), SumNums(Tail(q)))

calculateMovementConsistency(points) ==
    IF Len(points) < MinMovementPoints THEN Half
    ELSE LET speeds ==
                 [i \in 1..(Len(points) - 1) |->
                     LET dist == calculateDistance(points[i].x, points[i].y,
                                                   points[i + 1].x, points[i + 1].y)
                         timeDiff == points[i + 1].time - points[i].time
                     IN  RDiv(dist, RDiv(Num(timeDiff), Num(1000)))]
             avg == RDiv(SumNums(speeds), Num(Len(speeds)))
             squares == [i \in 1..Len(speeds) |-> MathPow2(RSub(speeds[i], avg))]
             variance == RDiv(SumNums(squares), Num(Len(speeds)))
         IN  MathMax(Zero, RSub(One, RDiv(variance, Num(10000))))

RECURSIVE InsertAsc(_, _)
InsertAsc(q, t) ==
    IF q = <<>> THEN <<t>>
    ELSE IF t < Head(q) THEN <<t>> \o q
    ELSE <<Head(q)>> \o InsertAsc(Tail(q), t)

RECURSIVE SortAsc(_)
\* times.sort((a, b) => a - b), which is stable
SortAsc(q) ==
    IF q = <<>> THEN <<>> ELSE InsertAsc(SortAsc(SubSeq(q, 1, Len(q) - 1)), q[Len(q)])

\* calculateDecisionSpeed dividing by the number of clicks instead of the
\* number of intervals
calculateDecisionSpeedPerClick(cd) ==
    IF Len(cd) < 2 THEN Half
    ELSE LET times == SortAsc([i \in 1..Len(cd) |-> cd[i].timestamp])
             intervals == [i \in 1..(Len(times) - 1) |-> Num(times[i + 1] - times[i])]
             avgInterval == RDiv(SumNums(intervals), Num(Len(times)))
         IN  MathMin(One, RDiv(Num(1000), avgInterval))

\* calculateDecisionSpeed without the clamp of Math.min
calculateDecisionSpeedUnclamped(cd) ==
    IF Len(cd) < 2 THEN Half
    ELSE LET times == SortAsc([i \in 1..Len(cd) |-> cd[i].timestamp])
             intervals == [i \in 1..(Len(times) - 1) |-> Num(times[i + 1] - times[i])]
             avgInterval == RDiv(SumNums(intervals), Num(Len(intervals)))
         IN  RDiv(Num(1000), avgInterval)

\* calculateDecisionSpeed taking the last interval for the mean interval
calculateDecisionSpeedLastGap(cd) ==
    IF Len(cd) < 2 THEN Half
    ELSE LET times == SortAsc([i \in 1..Len(cd) |-> cd[i].timestamp])
             avgInterval == Num(times[Len(times)] - times[Len(times) - 1])
         IN  MathMin(One, RDiv(Num(1000), avgInterval))

calculateDecisionSpeed(cd) ==
    IF Len(cd) < 2 THEN Half
    ELSE LET times == SortAsc([i \in 1..Len(cd) |-> cd[i].timestamp])
             intervals == [i \in 1..(Len(times) - 1) |-> Num(times[i + 1] - times[i])]
             avgInterval == RDiv(SumNums(intervals), Num(Len(intervals)))
         IN  MathMin(One, RDiv(Num(1000), avgInterval))

\* analyzeBehaviorPatterns when Date.now() returns t
analyzeBehaviorPatterns(t) ==
    [computed |-> TRUE,
     avgSpeed |-> IF Len(mouseData) > 0
                  THEN RDiv(SumSpeeds(mouseData), Num(Len(mouseData)))
                  ELSE Zero,
     clickFrequency |-> RDiv(Num(Len(clickData)),
                             RDiv(Num(t - sessionStart), Num(60000))),
     scrollIntensity |-> IF Len(scrollData) > 0 THEN MaxVelocity(scrollData)
                         ELSE Zero,
     movementConsistency |-> calculateMovementConsistency(movementPoints),
     decisionSpeed |-> calculateDecisionSpeed(clickData)]

----------------------------------------------------------------------------
(* Trait classifier *)

Trait(name, class) == [name |-> name, class |-> class]

\* generatePersonalityProfile with unshift in place of push
generatePersonalityProfileUnshift(p) ==
    LET traits ==
            (IF RGt(p.scrollIntensity, Num(100))
             THEN <<Trait("Energetic", "impulsive")>> ELSE <<>>)
            \o (IF RGt(p.decisionSpeed, [n |-> 8, d |-> 10])
                THEN <<Trait("Quick-reacting", "impulsive")>> ELSE <<>>)
            \o (IF RGt(p.movementConsistency, [n |-> 7, d |-> 10])
                THEN <<Trait("Systematic", "confident")>> ELSE <<>>)
            \o (IF RGt(p.clickFrequency, Num(5))
                THEN <<Trait("Active", "impulsive")>> ELSE <<>>)
            \o (IF RGt(p.avgSpeed, Num(500)) THEN <<Trait("Decisive", "confident")>>
                ELSE IF RLt(p.avgSpeed, Num(200)) THEN <<Trait("Attentive", "cautious")>>
                ELSE <<>>)
    IN  IF Len(traits) > 0 THEN traits ELSE <<Trait("Balanced", "confident")>>

\* generatePersonalityProfile with the comparison of the else-if branch
\* turned round (avgSpeed > 200)
generatePersonalityProfileTurned(p) ==
    LET traits ==
            (IF RGt(p.avgSpeed, Num(500)) THEN <<Trait("Decisive", "confident")>>
             ELSE IF RGt(p.avgSpeed, Num(200)) THEN <<Trait("Attentive", "cautious")>>
             ELSE <<>>)
            \o (IF RGt(p.clickFrequency, Num(5))
                THEN <<Trait("Active", "impulsive")>> ELSE <<>>)
            \o (IF RGt(p.movementConsistency, [n |-> 7, d |-> 10])
                THEN <<Trait("Systematic", "confident")>> ELSE <<>>)
            \o (IF RGt(p.decisionSpeed, [n |-> 8, d |-> 10])
                THEN <<Trait("Quick-reacting", "impulsive")>> ELSE <<>>)
            \o (IF RGt(p.scrollIntensity, Num(100))
                THEN <<Trait("Energetic", "impulsive")>> ELSE <<>>)
    IN  IF Len(traits) > 0 THEN traits ELSE <<Trait("Balanced", "confident")>>

generatePersonalityProfile(p) ==
    LET traits ==
            (IF RGt(p.avgSpeed, Num(500)) THEN <<Trait("Decisive", "confident")>>
             ELSE IF RLt(p.avgSpeed, Num(200)) THEN <<Trait("Attentive", "cautious")>>
             ELSE <<>>)
            \o (IF RGt(p.clickFrequency, Num(5))
                THEN <<Trait("Active", "impulsive")>> ELSE <<>>)
            \o (IF RGt(p.movementConsistency, [n |-> 7, d |-> 10])
                THEN <<Trait("Systematic", "confident")>> ELSE <<>>)
            \o (IF RGt(p.decisionSpeed, [n |-> 8, d |-> 10])
                THEN <<Trait("Quick-reacting", "impulsive")>> ELSE <<>>)
            \o (IF RGt(p.scrollIntensity, Num(100))
                THEN <<Trait("Energetic", "impulsive")>> ELSE <<>>)
    IN  IF Len(traits) > 0 THEN traits ELSE <<Trait("Balanced", "confident")>>

InsightEnergetic == "You show an energetic and goal-driven style of interaction"

InsightMethodical == "Your approach is methodical and attentive to detail"

InsightIntuitive == "You decide quickly and act intuitively"

InsightBalanced == "You show an adaptive and balanced style of behaviour"

\* generateInsight with its second and third branch in each other's place
generateInsightIntuitiveFirst(p, traits) ==
    IF RGt(p.avgSpeed, Num(600)) /\ RGt(p.clickFrequency, Num(8))
    THEN InsightEnergetic
    ELSE IF RGt(p.decisionSpeed, [n |-> 9, d |-> 10])
    THEN InsightIntuitive
    ELSE IF RLt(p.avgSpeed, Num(300)) /\ RGt(p.movementConsistency, [n |-> 8, d |-> 10])
    THEN InsightMethodical
    ELSE InsightBalanced

\* generateInsight with || in place of && in its first condition
generateInsightEither(p, traits) ==
    IF RGt(p.avgSpeed, Num(600)) \/ RGt(p.clickFrequency, Num(8))
    THEN InsightEnergetic
    ELSE IF RLt(p.avgSpeed, Num(300)) /\ RGt(p.movementConsistency, [n |-> 8, d |-> 10])
    THEN InsightMethodical
    ELSE IF RGt(p.decisionSpeed, [n |-> 9, d |-> 10])
    THEN InsightIntuitive
    ELSE InsightBalanced

generateInsight(p, traits) ==
    IF RGt(p.avgSpeed, Num(600)) /\ RGt(p.clickFrequency, Num(8))
    THEN InsightEnergetic
    ELSE IF RLt(p.avgSpeed, Num(300)) /\ RGt(p.movementConsistency, [n |-> 8, d |-> 10])
    THEN InsightMethodical
    ELSE IF RGt(p.decisionSpeed, [n |-> 9, d |-> 10])
    THEN InsightIntuitive
    ELSE InsightBalanced

----------------------------------------------------------------------------
(* Construction *)

\* initializeMetrics
initializeMetrics(txt) ==
    updateMetric(updateMetric(updateMetric(updateMetric(txt,
        "mouseSpeed", "0"), "clickCount", "0"), "scrollDistance", "0"),
        "sessionTime", "0")

\* The state after `new BehaviorAnalyzer()` in a document that holds the
\* elements of one of the sets of `documents`; no line of the constructor
\* dereferences an element, so it returns normally in every document.
\* `snapshots` holds the values of `patterns`: NoPatterns for a session, the
\* snapshots to classify for the classifier alone.
Constructed(documents, snapshots) ==
    /\ now = 0
    /\ mouseData = <<>>
    /\ clickData = <<>>
    /\ scrollData = <<>>
    /\ sessionStart = now
    /\ movementPoints = <<>>
    /\ lastMousePosition = [x |-> 0, y |-> 0]
    /\ lastMoveTime = now
    /\ present \in documents
    /\ text = initializeMetrics([e \in TextElements |-> InitialText])
    /\ heatmap = InitialChildren
    /\ timeline = InitialChildren
    /\ timelineScrollTop = 0
    /\ progressWidth = Zero
    /\ traitsShown = InitialChildren
    /\ sessionDue = now + SessionPeriod
    /\ analysisDue = now + AnalysisPeriod
    /\ patterns \in snapshots
    /\ uncaught = {}
    /\ moveCalls = <<>>
    /\ clickCalls = <<>>

----------------------------------------------------------------------------
(* Event handlers; each reads the clock, which never runs backwards *)

\* handleMouseMove measuring the gate from the call before it, rejected or not
handleMouseMoveDebounced(clientX, clientY, innerWidth, innerHeight, currentTime) ==
    LET timeDiff == currentTime - lastMoveTime
    IN  /\ currentTime >= now
        /\ now' = currentTime
        /\ IF timeDiff > MoveGate
           THEN LET distance == calculateDistance(Num(lastMousePosition.x),
                                                  Num(lastMousePosition.y),
                                                  Num(clientX), Num(clientY))
                    speed == RDiv(distance, RDiv(Num(timeDiff), Num(1000)))
                IN  /\ mouseData' = Append(mouseData,
                            [x |-> clientX, y |-> clientY, speed |-> speed,
                             timestamp |-> currentTime])
                    /\ text' = updateMetric(text, "mouseSpeed",
                                            NumToString(MathRound(speed)))
                    /\ lastMousePosition' = [x |-> clientX, y |-> clientY]
                    /\ lastMoveTime' = currentTime
                    /\ movementPoints' = Append(movementPoints,
                            [x |-> RDiv(Num(clientX), Num(innerWidth)),
                             y |-> RDiv(Num(clientY), Num(innerHeight)),
                             time |-> currentTime])
           ELSE /\ lastMoveTime' = currentTime
                /\ UNCHANGED <<mouseData, text, lastMousePosition, movementPoints>>
        /\ moveCalls' = Append(moveCalls,
                [time |-> currentTime, since |-> lastMoveTime,
                 samples |-> Len(mouseData') - Len(mouseData),
                 points |-> Len(movementPoints') - Len(movementPoints)])
        /\ UNCHANGED <<clickData, scrollData, sessionStart, timerVars, present,
                       heatmap, timeline, timelineScrollTop, progressWidth,
                       traitsShown, patterns, uncaught, clickCalls>>

handleMouseMove(clientX, clientY, innerWidth, innerHeight, currentTime) ==
    LET timeDiff == currentTime - lastMoveTime
    IN  /\ currentTime >= now
        /\ now' = currentTime
        /\ IF timeDiff > MoveGate
           THEN LET distance == calculateDistance(Num(lastMousePosition.x),
                                                  Num(lastMousePosition.y),
                                                  Num(clientX), Num(clientY))
                    speed == RDiv(distance, RDiv(Num(timeDiff), Num(1000)))
                IN  /\ mouseData' = Append(mouseData,
                            [x |-> clientX, y |-> clientY, speed |-> speed,
                             timestamp |-> currentTime])
                    /\ text' = updateMetric(text, "mouseSpeed",
                                            NumToString(MathRound(speed)))
                    /\ lastMousePosition' = [x |-> clientX, y |-> clientY]
                    /\ lastMoveTime' = currentTime
                    /\ movementPoints' = Append(movementPoints,
                            [x |-> RDiv(Num(clientX), Num(innerWidth)),
                             y |-> RDiv(Num(clientY), Num(innerHeight)),
                             time |-> currentTime])
           ELSE UNCHANGED <<mouseData, text, lastMousePosition, lastMoveTime,
                            movementPoints>>
        /\ moveCalls' = Append(moveCalls,
                [time |-> currentTime, since |-> lastMoveTime,
                 samples |-> Len(mouseData') - Len(mouseData),
                 points |-> Len(movementPoints') - Len(movementPoints)])
        /\ UNCHANGED <<clickData, scrollData, sessionStart, timerVars, present,
                       heatmap, timeline, timelineScrollTop, progressWidth,
                       traitsShown, patterns, uncaught, clickCalls>>

\* the ClickSample handleClick pushes
ClickSample(clientX, clientY, pressure, t) ==
    [x |-> clientX, y |-> clientY, timestamp |-> t,
     pressure |-> PressureOrDefault(pressure)]

\* handleClick behind the 50 ms gate of handleMouseMove, measured from the
\* click before it
handleClickGated(clientX, clientY, pressure, t) ==
    LET pushed == Append(clickData, ClickSample(clientX, clientY, pressure, t))
        clickCount == Len(pushed)
    IN  /\ t >= now
        /\ now' = t
        /\ clickCalls' = Append(clickCalls, [time |-> t, pressure |-> pressure])
        /\ IF clickData # <<>> /\ t - clickData[Len(clickData)].timestamp <= MoveGate
           THEN UNCHANGED <<clickData, text, heatmap, timeline,
                            timelineScrollTop, uncaught>>
           ELSE /\ clickData' = pushed
                /\ text' = updateMetric(text, "clickCount", ToString(clickCount))
                /\ IF "clickHeatmap" \notin present
                   THEN /\ uncaught' = uncaught \cup {"handleClick"}
                        /\ UNCHANGED <<heatmap, timeline, timelineScrollTop>>
                   ELSE /\ heatmap' = updateClickHeatmap(heatmap, Len(pushed))
                        /\ IF "activityTimeline" \notin present
                           THEN /\ uncaught' = uncaught \cup {"handleClick"}
                                /\ UNCHANGED <<timeline, timelineScrollTop>>
                           ELSE /\ timeline' = addTimelineEvent(timeline, "click",
                                        "Click at position (" \o ToString(clientX)
                                        \o ", " \o ToString(clientY) \o ")", t)
                                /\ timelineScrollTop' = Len(timeline')
                                /\ UNCHANGED uncaught
        /\ UNCHANGED <<mouseData, scrollData, sessionStart, movementPoints,
                       lastMousePosition, lastMoveTime, timerVars, present,
                       progressWidth, traitsShown, patterns, moveCalls>>

\* handleClick with unshift in place of push
handleClickUnshift(clientX, clientY, pressure, t) ==
    LET pushed == <<ClickSample(clientX, clientY, pressure, t)>> \o clickData
        clickCount == Len(pushed)
    IN  /\ t >= now
        /\ now' = t
        /\ clickData' = pushed
        /\ text' = updateMetric(text, "clickCount", ToString(clickCount))
        /\ IF "clickHeatmap" \notin present
           THEN /\ uncaught' = uncaught \cup {"handleClick"}
                /\ UNCHANGED <<heatmap, timeline, timelineScrollTop>>
           ELSE /\ heatmap' = updateClickHeatmap(heatmap, Len(pushed))
                /\ IF "activityTimeline" \notin present
                   THEN /\ uncaught' = uncaught \cup {"handleClick"}
                        /\ UNCHANGED <<timeline, timelineScrollTop>>
                   ELSE /\ timeline' = addTimelineEvent(timeline, "click",
                                "Click at position (" \o ToString(clientX)
                                \o ", " \o ToString(clientY) \o ")", t)
                        /\ timelineScrollTop' = Len(timeline')
                        /\ UNCHANGED uncaught
        /\ clickCalls' = Append(clickCalls, [time |-> t, pressure |-> pressure])
        /\ UNCHANGED <<mouseData, scrollData, sessionStart, movementPoints,
                       lastMousePosition, lastMoveTime, timerVars, present,
                       progressWidth, traitsShown, patterns, moveCalls>>

handleClick(clientX, clientY, pressure, t) ==
    LET pushed == Append(clickData, ClickSample(clientX, clientY, pressure, t))
        clickCount == Len(pushed)
    IN  /\ t >= now
        /\ now' = t
        /\ clickData' = pushed
        /\ text' = updateMetric(text, "clickCount", ToString(clickCount))
        /\ IF "clickHeatmap" \notin present
           THEN \* heatmap.appendChild on null
                /\ uncaught' = uncaught \cup {"handleClick"}
                /\ UNCHANGED <<heatmap, timeline, timelineScrollTop>>
           ELSE /\ heatmap' = updateClickHeatmap(heatmap, Len(pushed))
                /\ IF "activityTimeline" \notin present
                   THEN \* timeline.appendChild on null
                        /\ uncaught' = uncaught \cup {"handleClick"}
                        /\ UNCHANGED <<timeline, timelineScrollTop>>
                   ELSE /\ timeline' = addTimelineEvent(timeline, "click",
                                "Click at position (" \o ToString(clientX)
                                \o ", " \o ToString(clientY) \o ")", t)
                        /\ timelineScrollTop' = Len(timeline')
                        /\ UNCHANGED uncaught
        /\ clickCalls' = Append(clickCalls, [time |-> t, pressure |-> pressure])
        /\ UNCHANGED <<mouseData, scrollData, sessionStart, movementPoints,
                       lastMousePosition, lastMoveTime, timerVars, present,
                       progressWidth, traitsShown, patterns, moveCalls>>

handleScroll(scrollY, t) ==
    /\ t >= now
    /\ now' = t
    /\ scrollData' = Append(scrollData,
            [position |-> scrollY, timestamp |-> t,
             velocity |-> calculateScrollVelocity(scrollData)])
    /\ text' = updateMetric(text, "scrollDistance",
                            NumToString(MathRound(Num(scrollY))))
    /\ UNCHANGED <<mouseData, clickData, sessionStart, movementPoints,
                   lastMousePosition, lastMoveTime, timerVars, present, heatmap,
                   timeline, timelineScrollTop, progressWidth, traitsShown,
                   patterns, uncaught, moveCalls, clickCalls>>

handleKeyPress(key, t) ==
    /\ t >= now
    /\ now' = t
    /\ IF "activityTimeline" \notin present
       THEN \* timeline.appendChild on null
            /\ uncaught' = uncaught \cup {"handleKeyPress"}
            /\ UNCHANGED <<timeline, timelineScrollTop>>
       ELSE /\ timeline' = addTimelineEvent(timeline, "keypress",
                                            "Key pressed: " \o key, t)
            /\ timelineScrollTop' = Len(timeline')
            /\ UNCHANGED uncaught
    /\ UNCHANGED <<analyzerVars, timerVars, present, text, heatmap,
                   progressWidth, traitsShown, patterns, moveCalls, clickCalls>>

----------------------------------------------------------------------------
(* Timer callbacks of startAnalysis *)

\* the 1000 ms interval, run at time t
sessionTimeTick(t) ==
    /\ t >= now
    /\ t >= sessionDue
    /\ now' = t
    /\ sessionDue' = t + SessionPeriod
    /\ LET sessionTime == MathRound(RDiv(Num(t - sessionStart), Num(1000)))
       IN  text' = updateMetric(text, "sessionTime", NumToString(sessionTime))
    /\ UNCHANGED <<analyzerVars, analysisDue, present, heatmap, timeline,
                   timelineScrollTop, progressWidth, traitsShown, patterns,
                   uncaught, moveCalls, clickCalls>>

\* updateAnalysis from its second statement on: the classification of the
\* snapshot p and the writes to the document
showAnalysis(p) ==
    LET traits == generatePersonalityProfile(p)
        insight == generateInsight(p, traits)
        metrics ==
            updateMetric(updateMetric(updateMetric(text,
                "avgSpeed", NumToString(MathRound(p.avgSpeed)) \o " px/sec"),
                "clickActivity",
                TenthsToString(RDiv(MathRound(RMul(p.clickFrequency, Num(10))),
                                    Num(10))) \o "/min"),
                "scrollPattern",
                IF RGt(p.scrollIntensity, Num(100)) THEN "Energetic" ELSE "Smooth")
    IN  IF "mouseActivityProgress" \notin present
        THEN \* mouseProgress.style on null
             /\ uncaught' = uncaught \cup {"updateAnalysis"}
             /\ UNCHANGED <<progressWidth, text, traitsShown>>
        ELSE /\ progressWidth' = MathMin(RDiv(p.avgSpeed, Num(10)), Num(100))
             /\ IF "personalityTraits" \notin present
                THEN \* traitsContainer.innerHTML on null
                     /\ uncaught' = uncaught \cup {"updateAnalysis"}
                     /\ text' = metrics
                     /\ UNCHANGED traitsShown
                ELSE /\ traitsShown' = traits
                     /\ IF "behaviorInsight" \notin present
                        THEN \* getElementById(...).textContent on null
                             /\ uncaught' = uncaught \cup {"updateAnalysis"}
                             /\ text' = metrics
                        ELSE /\ text' = [metrics EXCEPT !["behaviorInsight"] = insight]
                             /\ UNCHANGED uncaught

\* updateAnalysis sorting this.clickData itself, latest first, instead of a
\* copy of its timestamps
updateAnalysisSortingInPlace(t) ==
    /\ t >= now
    /\ t >= analysisDue
    /\ now' = t
    /\ analysisDue' = t + AnalysisPeriod
    /\ patterns' = analyzeBehaviorPatterns(t)
    /\ showAnalysis(patterns')
    /\ clickData' = [i \in 1..Len(clickData) |-> clickData[Len(clickData) + 1 - i]]
    /\ UNCHANGED <<mouseData, scrollData, sessionStart, movementPoints,
                   lastMousePosition, lastMoveTime, sessionDue, present,
                   heatmap, timeline, timelineScrollTop, moveCalls, clickCalls>>

\* the 3000 ms interval, run at time t: updateAnalysis
updateAnalysis(t) ==
    /\ t >= now
    /\ t >= analysisDue
    /\ now' = t
    /\ analysisDue' = t + AnalysisPeriod
    /\ patterns' = analyzeBehaviorPatterns(t)
    /\ showAnalysis(patterns')
    /\ UNCHANGED <<analyzerVars, sessionDue, present, heatmap, timeline,
                   timelineScrollTop, moveCalls, clickCalls>>

----------------------------------------------------------------------------
(* The events of a session *)

\* at most this many input events are delivered
MaxEvents == 3

\* the clock readings of the handlers
Instants == {40, 60, 100, 140, 3000}

\* pointer positions; their distances are whole numbers of pixels
Positions == {<<0, 0>>, <<300, 400>>}

\* click positions
ClickPositions == {<<300, 400>>}

\* window.innerWidth and window.innerHeight
Viewports == {<<1000, 1000>>}

\* event.pressure: none, 0 and 1
Pressures == {<<>>, <<Zero>>, <<One>>}

\* event.pressure in a session of all kinds of events: none and 1
SessionPressures == {<<>>, <<One>>}

\* window.scrollY
ScrollOffsets == {0, 100}

\* event.key
Keys == {"a"}

KeyPresses == Cardinality({i \in DOMAIN timeline : timeline[i].icon = "icon-keypress"})

Delivered == Len(moveCalls) + Len(clickData) + Len(scrollData) + KeyPresses

MouseMove(instants) ==
    \E pos \in Positions, view \in Viewports, t \in instants :
        handleMouseMove(pos[1], pos[2], view[1], view[2], t)

Click(pressures, instants) ==
    \E pos \in ClickPositions, pressure \in pressures, t \in instants :
        handleClick(pos[1], pos[2], pressure, t)

Scroll(instants) ==
    \E scrollY \in ScrollOffsets, t \in instants : handleScroll(scrollY, t)

KeyPress(instants) ==
    \E key \in Keys, t \in instants : handleKeyPress(key, t)

SessionTimeTick(instants) == \E t \in instants : sessionTimeTick(t)

UpdateAnalysis(instants) == \E t \in instants : updateAnalysis(t)

\* A session in the complete document
Init == Constructed({AllElements}, {NoPatterns})

Next ==
    \/ Delivered < MaxEvents /\ MouseMove(Instants)
    \/ Delivered < MaxEvents /\ Click(SessionPressures, Instants)
    \/ Delivered < MaxEvents /\ Scroll(Instants)
    \/ Delivered < MaxEvents /\ KeyPress(Instants)
    \/ SessionTimeTick(Instants)
    \/ UpdateAnalysis(Instants)

Spec == Init /\ [][Next]_vars

----------------------------------------------------------------------------
(* A session in a document that lacks some of its elements *)

\* at most this many input events are delivered
MaxDocumentEvents == 2

DocumentInstants == {60, 3000}

\* every combination of the elements dereferenced unchecked, with the
\* metric slots all there or all missing
Documents ==
    {required \cup slots : required \in SUBSET RequiredElements,
                           slots \in {MetricSlots, {}}}

DocumentInit == Constructed(Documents, {NoPatterns})

DocumentNext ==
    \/ Delivered < MaxDocumentEvents /\ MouseMove(DocumentInstants)
    \/ Delivered < MaxDocumentEvents /\ Click({<<>>}, DocumentInstants)
    \/ Delivered < MaxDocumentEvents /\ Scroll(DocumentInstants)
    \/ Delivered < MaxDocumentEvents /\ KeyPress(DocumentInstants)
    \/ SessionTimeTick(DocumentInstants)
    \/ UpdateAnalysis(DocumentInstants)

DocumentSpec == DocumentInit /\ [][DocumentNext]_vars

----------------------------------------------------------------------------
(* A session of many clicks *)

\* at most this many clicks are delivered
MaxHeatmapClicks == 60

\* at most this many keys are pressed between them
MaxHeatmapKeys == 1

HeatmapInstants == {40}

HeatmapNext ==
    \/ Len(clickData) < MaxHeatmapClicks /\ Click({<<>>}, HeatmapInstants)
    \/ KeyPresses < MaxHeatmapKeys /\ KeyPress(HeatmapInstants)

HeatmapSpec == Init /\ [][HeatmapNext]_vars

----------------------------------------------------------------------------
(* A session of clicks and timer ticks *)

\* at most this many clicks are delivered
MaxClickRun == 4

ClickInstants == {0, 500, 1500, 3000}

TickInstants == {1000, 1500, 3000}

ClicksNext ==
    \/ Len(clickData) < MaxClickRun /\ Click(Pressures, ClickInstants)
    \/ SessionTimeTick(TickInstants)
    \/ UpdateAnalysis(TickInstants)

ClicksSpec == Init /\ [][ClicksNext]_vars

----------------------------------------------------------------------------
(* A session of many pointer moves, with clicks and a metric extraction *)

\* at most this many pointer moves are delivered
MaxMoveRun == 10

\* at most this many clicks are delivered among them
MaxMoveRunClicks == 2

\* a pointer move comes 60 ms after the event before it
MoveInstants == {now + 60}

MoveRunClickInstants == {1200, 2400}

\* the pointer moves, then the clicks come, then the metric extraction
MovesNext ==
    \/ /\ Len(moveCalls) < MaxMoveRun
       /\ clickData = <<>>
       /\ ~patterns.computed
       /\ MouseMove(MoveInstants)
    \/ Len(clickData) < MaxMoveRunClicks /\ Click({<<>>}, MoveRunClickInstants)
    \/ UpdateAnalysis({3000})

MovesSpec == Init /\ [][MovesNext]_vars

----------------------------------------------------------------------------
(* The classifier alone, on a grid of snapshots around its thresholds *)

AvgSpeeds == {Num(0), Num(199), Num(200), Num(250), Num(300), Num(450),
              Num(500), Num(501), Num(600), Num(601), Num(650)}

ClickFrequencies == {Num(0), Num(5), Num(6), Num(8), Num(9), Infinity}

Consistencies == {Zero, Half, [n |-> 7, d |-> 10], [n |-> 3, d |-> 4],
                  [n |-> 4, d |-> 5], [n |-> 9, d |-> 10], One}

DecisionSpeeds == {Half, [n |-> 4, d |-> 5], [n |-> 17, d |-> 20],
                   [n |-> 9, d |-> 10], One}

ScrollIntensities == {Num(0), Num(100), Num(101), Infinity, NaN}

Snapshots ==
    [computed : {TRUE}, avgSpeed : AvgSpeeds, clickFrequency : ClickFrequencies,
     scrollIntensity : ScrollIntensities, movementConsistency : Consistencies,
     decisionSpeed : DecisionSpeeds]

ClassifierInit == Constructed({AllElements}, Snapshots)

\* generatePersonalityProfile and generateInsight applied to the snapshot,
\* and their results shown
Classify ==
    /\ text["behaviorInsight"] = InitialText
    /\ showAnalysis(patterns)
    /\ UNCHANGED <<now, analyzerVars, timerVars, present, heatmap, timeline,
                   timelineScrollTop, patterns, moveCalls, clickCalls>>

ClassifierNext == Classify

ClassifierSpec == ClassifierInit /\ [][ClassifierNext]_vars

----------------------------------------------------------------------------
(* The rate gate of handleMouseMove *)

Accepted(k) == moveCalls[k].samples = 1 /\ moveCalls[k].points = 1

NoOp(k) == moveCalls[k].samples = 0 /\ moveCalls[k].points = 0

\* call k comes at most 50 ms after call k - 1
CloseToPrevious(k) == moveCalls[k].time - moveCalls[k - 1].time <= 50

\* calls i..j form a sequence in which each call comes at most 50 ms after
\* the one before it, and call i begins it
CloseRun(i, j) ==
    /\ i = 1 \/ ~CloseToPrevious(i)
    /\ \A k \in (i + 1)..j : CloseToPrevious(k)

\* C1 as stated: in every sequence of pointer-move calls each at most 50 ms
\* after the previous one, the first call is accepted and every later call
\* is a no-op.
C1_OnlyFirstOfCloseRun ==
    \A i \in 1..Len(moveCalls) : \A j \in i..Len(moveCalls) :
        CloseRun(i, j) => Accepted(i) /\ (j > i => NoOp(j))

\* C1 amended: the gate is measured from the last accepted call, so of the
\* calls that all come within 50 ms of an accepted call none is accepted:
\* whenever call i is accepted, every later call at most 50 ms after call i
\* is a no-op, and every call is either accepted or a no-op.
C1_NoOpWithin50msOfAccepted ==
    /\ \A k \in 1..Len(moveCalls) : Accepted(k) \/ NoOp(k)
    /\ \A i \in 1..Len(moveCalls) : \A j \in (i + 1)..Len(moveCalls) :
            Accepted(i) /\ moveCalls[j].time - moveCalls[i].time <= 50 => NoOp(j)

\* a call was accepted, the next came within 50 ms of it and was a no-op, and
\* a third, within 50 ms of the second, was accepted again
C1_Witness ==
    /\ Len(moveCalls) >= 3
    /\ Accepted(1) /\ NoOp(2) /\ Accepted(3)
    /\ CloseToPrevious(2) /\ CloseToPrevious(3)

\* calls 1..j are each more than 50 ms after the one before
SpacedRun(j) ==
    \A k \in 2..j : moveCalls[k].time - moveCalls[k - 1].time > 50

\* C2 as stated: when each pointer-move call made after construction comes
\* more than 50 ms after the previous one, every call, the first included,
\* appends one PointerSample and one MovementPoint.
C2_EverySpacedCallAccepted ==
    \A j \in 1..Len(moveCalls) :
        SpacedRun(j) => \A k \in 1..j : Accepted(k)

\* C2 amended: every call that comes more than 50 ms after the previous call
\* appends exactly one PointerSample and one MovementPoint; the first call
\* after construction does so exactly when it comes more than 50 ms after
\* the lastMoveTime the constructor set.
C2_SpacedCallsAcceptedAfterFirst ==
    /\ \A k \in 2..Len(moveCalls) :
            moveCalls[k].time - moveCalls[k - 1].time > 50 => Accepted(k)
    /\ Len(moveCalls) >= 1 =>
            (Accepted(1) <=> moveCalls[1].time - moveCalls[1].since > 50)
    /\ Len(mouseData) = Len(movementPoints)

\* the first call came within 50 ms of construction and was dropped, the
\* second came more than 50 ms after the first and was accepted
C2_Witness ==
    /\ Len(moveCalls) >= 2
    /\ moveCalls[1].time - sessionStart <= 50
    /\ NoOp(1)
    /\ moveCalls[2].time - moveCalls[1].time > 50
    /\ Accepted(2)
    /\ Len(mouseData) = 1 /\ Len(movementPoints) = 1

----------------------------------------------------------------------------
(* Scroll velocity *)

\* |position - previousPosition| / ((timestamp - previousTimestamp) / 1000)
\* between samples i - 1 and i of scrollData
VelocityBetween(i) ==
    RDiv(Num(Abs(scrollData[i].position - scrollData[i - 1].position)),
         RDiv(Num(scrollData[i].timestamp - scrollData[i - 1].timestamp),
              Num(1000)))

\* C3: every stored ScrollSample carries the velocity between it and the
\* sample stored immediately before it (stated for samples whose timestamps
\* differ, where the quotient is defined), and the first sample carries 0.
C3_VelocityFromPrecedingSample ==
    \A i \in 1..Len(scrollData) :
        IF i = 1 THEN scrollData[i].velocity = Zero
        ELSE scrollData[i].timestamp > scrollData[i - 1].timestamp
                => scrollData[i].velocity = VelocityBetween(i)

----------------------------------------------------------------------------
(* The neutral snapshot *)

NeutralPatterns ==
    [computed |-> TRUE, avgSpeed |-> Zero, clickFrequency |-> Zero,
     scrollIntensity |-> Zero, movementConsistency |-> Half,
     decisionSpeed |-> Half]

\* the last updateAnalysis ran to its end on the neutral snapshot
ShowsNeutral ==
    /\ patterns = NeutralPatterns
    /\ "updateAnalysis" \notin uncaught

\* C4 as stated: on the neutral snapshot the only trait is the fallback
\* "Balanced"/confident and the insight is the default one.
C4_NeutralGivesBalanced ==
    ShowsNeutral =>
        /\ traitsShown = <<Trait("Balanced", "confident")>>
        /\ text["behaviorInsight"] = InsightBalanced

\* C4 amended: on the neutral snapshot avgSpeed = 0 is below 200, so the only
\* trait is "Attentive"/cautious, not the fallback; the insight is the
\* default one.
C4_NeutralGivesAttentive ==
    ShowsNeutral =>
        /\ traitsShown = <<Trait("Attentive", "cautious")>>
        /\ text["behaviorInsight"] = InsightBalanced

\* updateAnalysis ran on a session without any event
C4_Witness ==
    /\ ShowsNeutral
    /\ Delivered = 0
    /\ Len(traitsShown) = 1

----------------------------------------------------------------------------
(* Finite metrics *)

\* C5: every value of the metrics snapshot and every stored scroll velocity
\* is a finite number.
C5_AllMetricsFinite ==
    /\ \A i \in 1..Len(scrollData) : IsFinite(scrollData[i].velocity)
    /\ IsFinite(patterns.clickFrequency)
    /\ IsFinite(patterns.decisionSpeed)
    /\ IsFinite(patterns.scrollIntensity)
    /\ IsFinite(patterns.avgSpeed)
    /\ IsFinite(patterns.movementConsistency)

----------------------------------------------------------------------------
(* Errors after construction *)

\* C6: no event handler and no timer callback that runs after construction
\* ends in an uncaught error, whichever display elements the document lacks.
C6_NoUncaughtErrorAfterConstruction == uncaught = {}

----------------------------------------------------------------------------
(* The heatmap *)

Min(a, b) == IF a < b THEN a ELSE b

\* C7: after n clicks the heatmap holds the cells of the last min(n, 50)
\* clicks, oldest first; so it never holds more than 50.
C7_HeatmapHoldsLast50 ==
    LET n == Len(clickData)
        m == Min(n, 50)
    IN  /\ Len(heatmap) = m
        /\ \A i \in 1..m : heatmap[i].click = n - m + i

\* 60 clicks were made and the heatmap holds the cells of clicks 11..60
C7_Witness ==
    /\ Len(clickData) = 60
    /\ Len(heatmap) = 50
    /\ heatmap[1].click = 11
    /\ heatmap[50].click = 60

----------------------------------------------------------------------------
(* The sample buffers *)

IsPrefix(q, r) == Len(q) <= Len(r) /\ SubSeq(r, 1, Len(q)) = q

TimestampsAscend(q) ==
    \A i \in 1..(Len(q) - 1) : q[i].timestamp <= q[i + 1].timestamp

\* C8: every step leaves the previous contents of mouseData, clickData and
\* scrollData as an unchanged prefix, and each buffer is non-decreasing in
\* timestamp after it.
C8_BuffersAppendOnlyAndOrdered ==
    [][/\ IsPrefix(mouseData, mouseData')
       /\ IsPrefix(clickData, clickData')
       /\ IsPrefix(scrollData, scrollData')
       /\ TimestampsAscend(mouseData')
       /\ TimestampsAscend(clickData')
       /\ TimestampsAscend(scrollData')]_vars

\* all three buffers hold a sample, their timestamps differ, and a metric
\* extraction has run on them
C8_Witness ==
    /\ Len(mouseData) >= 1 /\ Len(clickData) >= 1 /\ Len(scrollData) >= 1
    /\ mouseData[1].timestamp < scrollData[1].timestamp
    /\ patterns.computed
    /\ patterns.clickFrequency = Num(20)

----------------------------------------------------------------------------
(* Insight rule 1 and the traits *)

Shown(trait) == \E i \in DOMAIN traitsShown : traitsShown[i] = trait

\* C9: whenever the insight chosen for a snapshot is that of rule 1, the
\* traits of the same snapshot hold "Decisive"/confident and
\* "Active"/impulsive.
C9_EnergeticInsightHasDecisiveAndActive ==
    text["behaviorInsight"] = InsightEnergetic =>
        /\ Shown(Trait("Decisive", "confident"))
        /\ Shown(Trait("Active", "impulsive"))

\* the snapshot avgSpeed = 650, clickFrequency = 9 was classified by rule 1
C9_Witness ==
    /\ patterns.avgSpeed = Num(650)
    /\ patterns.clickFrequency = Num(9)
    /\ text["behaviorInsight"] = InsightEnergetic
    /\ Shown(Trait("Decisive", "confident"))
    /\ Shown(Trait("Active", "impulsive"))

----------------------------------------------------------------------------
(* decisionSpeed *)

RECURSIVE GapSum(_)
\* the sum of the gaps between consecutive click timestamps
GapSum(cd) ==
    IF Len(cd) < 2 THEN 0
    ELSE GapSum(SubSeq(cd, 1, Len(cd) - 1))
         + (cd[Len(cd)].timestamp - cd[Len(cd) - 1].timestamp)

\* min(1, 1000 / meanIntervalMs) for the clicks of cd, 0.5 below two clicks
ExpectedDecisionSpeed(cd) ==
    IF Len(cd) < 2 THEN Half
    ELSE IF 1000 * (Len(cd) - 1) >= GapSum(cd) THEN One
    ELSE Norm(1000 * (Len(cd) - 1), GapSum(cd))

\* C10: on the clicks stored in any reachable state calculateDecisionSpeed
\* is 0.5 for 0 or 1 clicks and min(1, 1000 / meanIntervalMs) for 2 or more,
\* where meanIntervalMs is the mean gap between consecutive click timestamps.
C10_DecisionSpeedFormula ==
    calculateDecisionSpeed(clickData) = ExpectedDecisionSpeed(clickData)

\* clicks at 0, 500, 1500 and 3000 ms, a mean interval of 1000 ms, were
\* followed by a metric extraction that found decisionSpeed = 1
C10_Witness ==
    /\ Len(clickData) = 4
    /\ clickData[1].timestamp = 0
    /\ clickData[2].timestamp = 500
    /\ clickData[3].timestamp = 1500
    /\ clickData[4].timestamp = 3000
    /\ patterns.computed
    /\ patterns.decisionSpeed = One

----------------------------------------------------------------------------
(* movementConsistency below ten points *)

\* all movement points lie at one position
PointerAtRest ==
    \A i \in 1..Len(movementPoints) :
        /\ movementPoints[i].x = movementPoints[1].x
        /\ movementPoints[i].y = movementPoints[1].y

\* C11: calculateMovementConsistency is 0.5 whenever movementPoints holds
\* fewer than 10 points, whatever they are; from the 10th point on the
\* formula is used, which gives 1 for a pointer at rest.
C11_ConsistencyHalfBelowTenPoints ==
    /\ Len(movementPoints) < 10
            => calculateMovementConsistency(movementPoints) = Half
    /\ Len(movementPoints) >= 10 /\ PointerAtRest
            => calculateMovementConsistency(movementPoints) = One
    /\ patterns.computed /\ Len(movementPoints) < 10
            => patterns.movementConsistency = Half

\* a metric extraction ran on nine movement points of which the pointer
\* moved between some and rested between others
C11_Witness ==
    /\ Len(movementPoints) = 9
    /\ movementPoints[1].x # movementPoints[2].x
    /\ movementPoints[2].x = movementPoints[3].x
    /\ patterns.computed
    /\ patterns.movementConsistency = Half

----------------------------------------------------------------------------
(* C12 *)

\* a finite number between 0 and 1, both included
InUnitInterval(a) == IsFinite(a) /\ ~RLt(a, Zero) /\ ~RGt(a, One)

\* C12: movementConsistency and decisionSpeed lie in [0, 1], both as computed
\* from the buffers of any history and as held by a computed snapshot
C12_ConsistencyAndDecisionSpeedInUnitInterval ==
    /\ InUnitInterval(calculateMovementConsistency(movementPoints))
    /\ InUnitInterval(calculateDecisionSpeed(clickData))
    /\ patterns.computed
            => /\ InUnitInterval(patterns.movementConsistency)
               /\ InUnitInterval(patterns.decisionSpeed)

\* a snapshot of ten movement points with unequal speeds and of two clicks
\* more than a second apart: neither metric is at its default or at a bound
C12_Witness ==
    /\ patterns.computed
    /\ Len(movementPoints) >= 10
    /\ Len(clickData) >= 2
    /\ RLt(Zero, patterns.movementConsistency)
    /\ RLt(patterns.movementConsistency, One)
    /\ RLt(Half, patterns.decisionSpeed)
    /\ RLt(patterns.decisionSpeed, One)

----------------------------------------------------------------------------
(* C13 *)

\* the step is a run of one of the two intervals of startAnalysis: only
\* these set the time of their next run
TimerStep == analysisDue' # analysisDue \/ sessionDue' # sessionDue

\* C13: a run of updateAnalysis and a run of the session-time interval leave
\* mouseData, clickData (its order included), scrollData, movementPoints,
\* lastMousePosition, lastMoveTime and sessionStart as they were
C13_TicksLeaveAnalyticalStateUnchanged ==
    [][TimerStep =>
          /\ mouseData' = mouseData
          /\ clickData' = clickData
          /\ scrollData' = scrollData
          /\ movementPoints' = movementPoints
          /\ lastMousePosition' = lastMousePosition
          /\ lastMoveTime' = lastMoveTime
          /\ sessionStart' = sessionStart]_vars

\* both intervals have run over buffers that hold a pointer sample and two
\* clicks at different times
C13_Witness ==
    /\ patterns.computed
    /\ RGt(patterns.avgSpeed, Zero)
    /\ patterns.decisionSpeed # Half
    /\ Len(clickData) >= 2
    /\ clickData[1].timestamp # clickData[2].timestamp
    /\ text["sessionTime"] # InitialText

----------------------------------------------------------------------------
(* C14 *)

\* C14: every call of handleClick has appended one sample, taken at the time
\* of the call, and once a click is handled the clickCount slot shows the
\* number of calls, which is the length of clickData
C14_EveryClickRecordedAndCounted ==
    /\ Len(clickData) = Len(clickCalls)
    /\ \A i \in 1..Len(clickCalls) : clickData[i].timestamp = clickCalls[i].time
    /\ clickCalls # <<>>
            => /\ text["clickCount"] = ToString(Len(clickCalls))
               /\ text["clickCount"] = ToString(Len(clickData))

\* two clicks within 50 ms of each other and of an accepted pointer sample
C14_Witness ==
    /\ Len(clickCalls) = 2
    /\ clickCalls[2].time - clickCalls[1].time <= 50
    /\ mouseData # <<>>
    /\ Abs(clickCalls[1].time - mouseData[1].timestamp) <= 50
    /\ text["clickCount"] = "2"

----------------------------------------------------------------------------
(* C15 *)

\* the step is a call of handleMouseMove no more than 50 ms after lastMoveTime
RejectedMoveStep ==
    /\ Len(moveCalls') = Len(moveCalls) + 1
    /\ now' - lastMoveTime <= 50

\* C15: a call of handleMouseMove with now - lastMoveTime <= 50 leaves
\* mouseData, movementPoints, lastMousePosition, lastMoveTime and the
\* mouseSpeed slot as they were
C15_RejectedMoveChangesNothing ==
    [][RejectedMoveStep =>
          /\ mouseData' = mouseData
          /\ movementPoints' = movementPoints
          /\ lastMousePosition' = lastMousePosition
          /\ lastMoveTime' = lastMoveTime
          /\ text'["mouseSpeed"] = text["mouseSpeed"]]_vars

\* a rejected call, then a call within 50 ms of it that is accepted, being
\* more than 50 ms after the time the rejected call was measured from
C15_Witness ==
    \E i \in 1..(Len(moveCalls) - 1) :
        /\ moveCalls[i].time - moveCalls[i].since <= 50
        /\ moveCalls[i].samples = 0
        /\ moveCalls[i + 1].time - moveCalls[i].time <= 50
        /\ moveCalls[i + 1].since = moveCalls[i].since
        /\ moveCalls[i + 1].samples = 1

----------------------------------------------------------------------------
(* C16, C17 *)

\* the snapshot has been classified and the result shown
Classified == text["behaviorInsight"] # InitialText

\* the traits in the order of their rules
RuleOrder == <<"Decisive", "Attentive", "Active", "Systematic",
               "Quick-reacting", "Energetic">>

\* the threshold rule of the trait holds of the snapshot
Fires(name) ==
    CASE name = "Decisive" -> RGt(patterns.avgSpeed, Num(500))
      [] name = "Attentive" -> RLt(patterns.avgSpeed, Num(200))
      [] name = "Active" -> RGt(patterns.clickFrequency, Num(5))
      [] name = "Systematic" -> RGt(patterns.movementConsistency, [n |-> 7, d |-> 10])
      [] name = "Quick-reacting" -> RGt(patterns.decisionSpeed, [n |-> 8, d |-> 10])
      [] name = "Energetic" -> RGt(patterns.scrollIntensity, Num(100))

TraitNames == [i \in 1..Len(traitsShown) |-> traitsShown[i].name]

ShownName(name) == \E i \in 1..Len(traitsShown) : traitsShown[i].name = name

\* C16: the trait list of a snapshot is not empty, holds the traits whose
\* rule fires in the order of the rules, never holds both "Decisive" and
\* "Attentive", and holds "Balanced" exactly when no rule fires, alone
C16_TraitListOrderedAndFallbackOnlyWhenNoRuleFires ==
    Classified =>
        /\ Len(traitsShown) > 0
        /\ (\E i \in 1..Len(RuleOrder) : Fires(RuleOrder[i]))
                => TraitNames = SelectSeq(RuleOrder, Fires)
        /\ ~(ShownName("Decisive") /\ ShownName("Attentive"))
        /\ ShownName("Balanced") <=> \A i \in 1..Len(RuleOrder) : ~Fires(RuleOrder[i])
        /\ ShownName("Balanced") => traitsShown = <<Trait("Balanced", "confident")>>

\* a snapshot of which five rules fire
C16_Witness ==
    /\ Classified
    /\ TraitNames = <<"Decisive", "Active", "Systematic", "Quick-reacting",
                      "Energetic">>

\* the conditions of the three branches of generateInsight
InsightRule1 == RGt(patterns.avgSpeed, Num(600)) /\ RGt(patterns.clickFrequency, Num(8))

InsightRule2 ==
    RLt(patterns.avgSpeed, Num(300)) /\ RGt(patterns.movementConsistency, [n |-> 8, d |-> 10])

InsightRule3 == RGt(patterns.decisionSpeed, [n |-> 9, d |-> 10])

\* C17: the insight of a snapshot is that of the first of rule 1, rule 2 and
\* rule 3 that holds, the default one when none holds, whatever the traits
C17_InsightByFirstMatch ==
    Classified =>
        /\ text["behaviorInsight"] =
               IF InsightRule1 THEN InsightEnergetic
               ELSE IF InsightRule2 THEN InsightMethodical
               ELSE IF InsightRule3 THEN InsightIntuitive
               ELSE InsightBalanced
        /\ generateInsight(patterns, <<>>) = text["behaviorInsight"]
        /\ generateInsight(patterns, <<Trait("Balanced", "confident")>>)
               = text["behaviorInsight"]

\* rule 2 and rule 3 both hold of the snapshot and the insight is that of rule 2
C17_Witness ==
    /\ Classified
    /\ InsightRule2
    /\ InsightRule3
    /\ text["behaviorInsight"] = InsightMethodical

----------------------------------------------------------------------------
(* C18 *)

\* C18: the sample of a click without a pressure holds 0.5, the sample of a
\* click with a pressure in [0, 1], 0 included, holds that pressure, and no
\* click throws for want of a pressure
C18_StoredPressureIsSuppliedOrDefault ==
    /\ Len(clickData) = Len(clickCalls)
    /\ "handleClick" \notin uncaught
    /\ \A i \in 1..Len(clickCalls) :
           IF clickCalls[i].pressure = <<>>
           THEN clickData[i].pressure = Half
           ELSE clickData[i].pressure = clickCalls[i].pressure[1]

----------------------------------------------------------------------------
(* C19 *)

\* C19: mouseData and movementPoints run in step, with equal timestamps;
\* accepted samples are more than 50 ms apart and the first comes more than
\* 50 ms after construction; lastMoveTime and lastMousePosition are those of
\* the last sample; so every time difference a speed is divided by, in
\* handleMouseMove and in calculateMovementConsistency, is positive
C19_SamplesInStepAndSpaced ==
    /\ Len(mouseData) = Len(movementPoints)
    /\ \A i \in 1..Len(mouseData) : mouseData[i].timestamp = movementPoints[i].time
    /\ \A i \in 2..Len(mouseData) :
           mouseData[i].timestamp - mouseData[i - 1].timestamp > 50
    /\ mouseData # <<>>
            => /\ mouseData[1].timestamp - sessionStart > 50
               /\ lastMoveTime = mouseData[Len(mouseData)].timestamp
               /\ lastMousePosition.x = mouseData[Len(mouseData)].x
               /\ lastMousePosition.y = mouseData[Len(mouseData)].y
    /\ \A k \in 1..Len(moveCalls) :
           moveCalls[k].samples = 1 => moveCalls[k].time - moveCalls[k].since > 0
    /\ \A i \in 1..(Len(movementPoints) - 1) :
           movementPoints[i + 1].time - movementPoints[i].time > 0

\* two accepted samples at different positions with a rejected call between them
C19_Witness ==
    /\ Len(moveCalls) = 3
    /\ moveCalls[2].samples = 0
    /\ Len(mouseData) = 2
    /\ mouseData[1].x # mouseData[2].x

----------------------------------------------------------------------------
(* C20 *)

ClickTimes == [i \in 1..Len(clickData) |-> clickData[i].timestamp]

\* C20: sorting the click timestamps changes nothing, and from two clicks on
\* decisionSpeed is min(1, 1000 * (n - 1) / (lastTimestamp - firstTimestamp))
C20_DecisionSpeedFromFirstAndLastClick ==
    /\ SortAsc(ClickTimes) = ClickTimes
    /\ Len(clickData) >= 2
            => calculateDecisionSpeed(clickData)
                   = MathMin(One,
                             RDiv(Num(1000 * (Len(clickData) - 1)),
                                  Num(clickData[Len(clickData)].timestamp
                                          - clickData[1].timestamp)))

\* three clicks with unequal gaps between them, and a decisionSpeed below 1
\* in the snapshot
C20_Witness ==
    /\ Len(clickData) = 3
    /\ clickData[2].timestamp - clickData[1].timestamp
           # clickData[3].timestamp - clickData[2].timestamp
    /\ patterns.computed
    /\ patterns.decisionSpeed = calculateDecisionSpeed(clickData)
    /\ RLt(patterns.decisionSpeed, One)

====
